---- MODULE Spec2Model ----
(***************************************************************************)
(* Model of cellSNP.main (src/cellSNP/cellSNP.py): option validation,      *)
(* barcode loading, partitioning of the work into tasks, dispatch to a     *)
(* multiprocessing.Pool (or sequential execution), the close/join barrier, *)
(* result collection and the final merge_vcf call.                         *)
(*                                                                         *)
(* Strings are sequences of one-character strings; a path is such a        *)
(* sequence as well (a multi-character token stands for a literal piece    *)
(* of text that the program never inspects).                               *)
(***************************************************************************)
EXTENDS Integers, Sequences, FiniteSets, TLC

VARIABLES
    options,        \* the parsed command line (optparse values), argv emptiness
    barcode_lines,  \* content of the barcode file: fid.readlines()
    vcf_len,        \* number of records in the --regionsVCF file
    pc,             \* position of main(): build, dispatch, join, collect, merge, done, failed
    barcodes,       \* [some, val]: None, or the sorted list built at line 77-79
    chrom_all,      \* list of chromosome names (line 122-125)
    vcf_RV,         \* result of parse_vcf_file: four aligned lists
    ii,             \* number of loop iterations of the dispatch loop done so far
    out_files,      \* list of temp paths handed to merge_vcf
    tasks,          \* every engine invocation made so far, in invocation order
    result,         \* list of AsyncResult handles (indices into tasks)
    pool,           \* "none", "open", "closed", "joined"
    files,          \* temp files that currently exist
    merged,         \* calls made to merge_vcf: sequence of [out, parts]
    done_order,     \* task indices in the order the tasks reached a terminal state
    started,        \* task indices in the order the engine calls began
    raised,         \* index of the task whose exception ended main, 0 if none
    exit_code       \* process exit status once main has ended, -1 before

vars == <<options, barcode_lines, vcf_len, pc, barcodes, chrom_all, vcf_RV, ii,
          out_files, tasks, result, pool, files, merged, done_order, started,
          raised, exit_code>>

\* ---------------------------------------------------------------- bounds
MaxNproc == 4        \* largest --nproc of the orchestration model
MaxChromLen == 3     \* longest --chrom option text
MaxL == 4            \* most candidate variants of the orchestration model
MaxPartL == 10       \* most candidate variants of the partition model
MaxPartNproc == 5    \* largest --nproc of the partition model
MaxLines == 3        \* most lines of the barcode file
MaxLineLen == 2      \* longest barcode line (before the newline)
MaxLiveNproc == 3    \* largest --nproc of the progress model
MaxLiveChromLen == 3 \* longest --chrom option text of the progress model
MaxLiveL == 2        \* most candidate variants of the progress model

\* ---------------------------------------------------------------- helpers
None == <<"<None>">>

Min(a, b) == IF a < b THEN a ELSE b

Range(s) == {s[k] : k \in 1..Len(s)}

SeqsUpTo(S, n) == UNION {[1..k -> S] : k \in 0..n}

\* Python slice s[a:b] for 0 <= a, 0 <= b: both ends are clamped to len(s)
Slice(s, a, b) == SubSeq(s, Min(a, Len(s)) + 1, Min(b, Len(s)))

Digits == <<"0", "1", "2", "3", "4", "5", "6", "7", "8", "9">>

\* "%d" % n and str(n) for n >= 0
RECURSIVE FormatD(_)
FormatD(n) == IF n < 10 THEN <<Digits[n + 1]>>
              ELSE FormatD(n \div 10) \o <<Digits[(n % 10) + 1]>>

\* index of the first occurrence of c in s, 0 when absent
RECURSIVE Find(_, _, _)
Find(s, c, k) == IF k > Len(s) THEN 0
                 ELSE IF s[k] = c THEN k ELSE Find(s, c, k + 1)

\* str.split(sep) for a one-character separator
RECURSIVE Split(_, _)
Split(s, sep) ==
    LET k == Find(s, sep, 1)
    IN  IF k = 0 THEN <<s>>
        ELSE <<SubSeq(s, 1, k - 1)>> \o Split(SubSeq(s, k + 1, Len(s)), sep)

Whitespace == {" ", "\n"}

\* str.rstrip(): drop trailing whitespace
RECURSIVE RStrip(_)
RStrip(s) == IF Len(s) > 0 /\ s[Len(s)] \in Whitespace
             THEN RStrip(SubSeq(s, 1, Len(s) - 1)) ELSE s

\* code point order of the characters that occur in barcode lines
Ord(c) == CASE c = "\n" -> 10 [] c = " " -> 32 [] c = "-" -> 45
            [] c = "A" -> 65 [] c = "B" -> 66 [] OTHER -> 127

\* Python's str <
RECURSIVE StrLess(_, _)
StrLess(a, b) ==
    IF Len(b) = 0 THEN FALSE
    ELSE IF Len(a) = 0 THEN TRUE
    ELSE IF a[1] # b[1] THEN Ord(a[1]) < Ord(b[1])
    ELSE StrLess(Tail(a), Tail(b))

\* insert x into the sorted list s after every element that is not greater
RECURSIVE Insert(_, _)
Insert(s, x) == IF Len(s) = 0 THEN <<x>>
                ELSE IF StrLess(x, s[1]) THEN <<x>> \o s
                ELSE <<s[1]>> \o Insert(Tail(s), x)

\* sorted(list): every element kept, ascending
RECURSIVE sorted(_)
sorted(s) == IF Len(s) = 0 THEN <<>>
             ELSE Insert(sorted(SubSeq(s, 1, Len(s) - 1)), s[Len(s)])

\* line 77: [x.rstrip().split("-")[0] for x in fid.readlines()]
NormalizeBarcode(x) == Split(RStrip(x), "-")[1]

\* line 77-79
LoadBarcodes(lines) ==
    sorted([k \in 1..Len(lines) |-> NormalizeBarcode(lines[k])])

\* ---------------------------------------------------------------- file system
ExistingFiles == {<<"b">>, <<"s">>, <<"r">>}
ExistingDirs == {<<"d">>}

isfile(p) == p \in ExistingFiles
isdir(p) == p \in ExistingDirs

\* last index of c in s, 0 when absent (str.rfind + 1)
RECURSIVE RFind(_, _, _)
RFind(s, c, k) == IF k = 0 THEN 0
                  ELSE IF s[k] = c THEN k ELSE RFind(s, c, k - 1)

RECURSIVE RStripSlash(_)
RStripSlash(s) == IF Len(s) > 0 /\ s[Len(s)] = "/"
                  THEN RStripSlash(SubSeq(s, 1, Len(s) - 1)) ELSE s

\* os.path.dirname
dirname(p) ==
    LET head == SubSeq(p, 1, RFind(p, "/", Len(p)))
    IN  IF Len(head) > 0 /\ Range(head) # {"/"} THEN RStripSlash(head) ELSE head

\* parse_vcf_file: four index-aligned lists, one entry per record of the file
Variant(k) == [chrom |-> FormatD(1 + ((k - 1) \div 2)), pos |-> 100 + k,
               REF |-> <<"r">> \o FormatD(k), ALT |-> <<"a">> \o FormatD(k)]

parse_vcf_file(L) ==
    [chrom |-> [k \in 1..L |-> Variant(k).chrom],
     pos   |-> [k \in 1..L |-> Variant(k).pos],
     REF   |-> [k \in 1..L |-> Variant(k).REF],
     ALT   |-> [k \in 1..L |-> Variant(k).ALT]]

EmptyVcf == [chrom |-> <<>>, pos |-> <<>>, REF |-> <<>>, ALT |-> <<>>]

\* ---------------------------------------------------------------- job set-up
\* line 122-125
DefaultChroms == [x \in 1..22 |-> FormatD(x)]

ChromList(opt) == IF opt = None THEN DefaultChroms ELSE Split(opt, ",")

\* line 100: region_file is None or the text "None"
NoRegion(opt) == opt = None \/ opt = <<"None">>

\* variant of ConfigError that does not look at the output directory
ConfigError_NoDirCheck(o) ==
    IF o.argv_empty THEN "usage"
    ELSE IF o.barcode_file # None /\ ~isfile(o.barcode_file) THEN "barcodeFile"
    ELSE IF o.sam_file = None \/ ~isfile(o.sam_file) THEN "samFile"
    ELSE IF o.out_file = None THEN "outFile"
    ELSE IF ~NoRegion(o.region_file) /\ ~isfile(o.region_file) THEN "regionsVCF"
    ELSE ""

\* first failing check of line 63-106, "" when the options are accepted
ConfigError(o) ==
    IF o.argv_empty THEN "usage"
    ELSE IF o.barcode_file # None /\ ~isfile(o.barcode_file) THEN "barcodeFile"
    ELSE IF o.sam_file = None \/ ~isfile(o.sam_file) THEN "samFile"
    ELSE IF o.out_file = None \/ ~isdir(dirname(o.out_file)) THEN "outFile"
    ELSE IF ~NoRegion(o.region_file) /\ ~isfile(o.region_file) THEN "regionsVCF"
    ELSE ""

\* line 135
WholeGenome == NoRegion(options.region_file)

\* variant of Pooled in which the whole-genome branch always uses a pool
Pooled_Always == TRUE

\* line 137: a pool is used; the targeted branch always creates one
Pooled == IF WholeGenome THEN options.nproc > 1 ELSE TRUE

\* line 140, 150, 164: out_file + ".temp_%s_" % key
TempPath(out, key) == out \o <<".temp_">> \o key \o <<"_">>

\* variant of LEN_div that rounds the block size up
LEN_div_Ceil(L, n) == (L + n - 1) \div n

\* line 161: int(len(vcf_RV["chrom"]) / nproc), nproc >= 1
LEN_div(L, n) == L \div n

\* variant of SliceHi without the special case of the last task
SliceHi_NoRemainder(L, n, i) == (L \div n) * (i + 1)

\* line 167-172: slice bounds of task number i (0-based) of n
SliceLo(L, n, i) == LEN_div(L, n) * i

SliceHi(L, n, i) == IF i = n - 1 THEN L ELSE LEN_div(L, n) * (i + 1)

\* variant of LoopLen that makes no task for an empty index range
LoopLen_SkipEmpty ==
    IF WholeGenome THEN Len(chrom_all) ELSE Min(options.nproc, Len(vcf_RV.pos))

\* number of iterations of the dispatch loop
LoopLen == IF WholeGenome THEN Len(chrom_all) ELSE options.nproc

Terminal(st) == st \in {"success", "failed"}

Running == {t \in 1..Len(tasks) : tasks[t].status = "running"}
Queued == {t \in 1..Len(tasks) : tasks[t].status = "queued"}
Failed == {t \in 1..Len(tasks) : tasks[t].status = "failed"}

\* line 62-138 and 161-162: validate, load, and get to the head of the loop
BuildJob ==
    /\ pc = "build"
    /\ LET err == ConfigError(options)
       IN  IF err # "" 
           THEN /\ pc' = "failed"
                /\ exit_code' = 1
                /\ UNCHANGED <<barcodes, chrom_all, vcf_RV, pool>>
           ELSE /\ barcodes' = IF options.barcode_file = None
                               THEN [some |-> FALSE, val |-> <<>>]
                               ELSE [some |-> TRUE, val |-> LoadBarcodes(barcode_lines)]
                /\ vcf_RV' = IF WholeGenome THEN EmptyVcf ELSE parse_vcf_file(vcf_len)
                /\ chrom_all' = ChromList(options.chrom_all)
                /\ IF ~WholeGenome /\ options.nproc < 1
                   THEN \* ZeroDivisionError at line 161 or ValueError in Pool()
                        /\ pc' = "failed"
                        /\ exit_code' = 1
                        /\ pool' = pool
                   ELSE /\ pc' = "dispatch"
                        /\ exit_code' = exit_code
                        /\ pool' = IF Pooled THEN "open" ELSE "none"
    /\ UNCHANGED <<options, started, barcode_lines, vcf_len, ii, out_files, tasks, result,
                   files, merged, done_order, raised>>

\* line 139-145: one iteration of the pooled whole-genome loop
DispatchPileupPool ==
    /\ pc = "dispatch" /\ WholeGenome /\ Pooled /\ ii < LoopLen
    /\ LET _chrom == chrom_all[ii + 1]
           chr_out_file == TempPath(options.out_file, _chrom)
       IN  /\ out_files' = Append(out_files, chr_out_file)
           /\ tasks' = Append(tasks, [func |-> "pileup_regions", out |-> chr_out_file,
                                      chrom |-> _chrom, pos |-> <<>>, REF |-> <<>>,
                                      ALT |-> <<>>, status |-> "queued"])
           /\ result' = Append(result, Len(tasks) + 1)
    /\ ii' = ii + 1
    /\ UNCHANGED <<options, started, barcode_lines, vcf_len, pc, barcodes, chrom_all, vcf_RV,
                   pool, files, merged, done_order, raised, exit_code>>

\* line 149-154: an iteration of the sequential loop up to the engine call
DispatchPileupSeq ==
    /\ pc = "dispatch" /\ WholeGenome /\ ~Pooled /\ ii < LoopLen
    /\ Running = {}
    /\ LET _chrom == chrom_all[ii + 1]
           chr_out_file == TempPath(options.out_file, _chrom)
       IN  /\ out_files' = Append(out_files, chr_out_file)
           /\ tasks' = Append(tasks, [func |-> "pileup_regions", out |-> chr_out_file,
                                      chrom |-> _chrom, pos |-> <<>>, REF |-> <<>>,
                                      ALT |-> <<>>, status |-> "running"])
    /\ started' = Append(started, Len(tasks) + 1)
    /\ ii' = ii + 1
    /\ UNCHANGED <<options, barcode_lines, vcf_len, pc, barcodes, chrom_all, vcf_RV,
                   result, pool, files, merged, done_order, raised, exit_code>>

\* line 163-177: one iteration of the targeted loop
DispatchFetch ==
    /\ pc = "dispatch" /\ ~WholeGenome /\ ii < LoopLen
    /\ LET out_file_tmp == TempPath(options.out_file, FormatD(ii))
           L == Len(vcf_RV.pos)
           lo == SliceLo(L, options.nproc, ii)
           hi == SliceHi(L, options.nproc, ii)
       IN  /\ out_files' = Append(out_files, out_file_tmp)
           /\ tasks' = Append(tasks, [func |-> "fetch_positions", out |-> out_file_tmp,
                                      chrom |-> Slice(vcf_RV.chrom, lo, hi),
                                      pos |-> Slice(vcf_RV.pos, lo, hi),
                                      REF |-> vcf_RV.REF, ALT |-> vcf_RV.ALT,
                                      status |-> "queued"])
           /\ result' = Append(result, Len(tasks) + 1)
    /\ ii' = ii + 1
    /\ UNCHANGED <<options, started, barcode_lines, vcf_len, pc, barcodes, chrom_all, vcf_RV,
                   pool, files, merged, done_order, raised, exit_code>>

\* ---------------------------------------------------------------- the pool
\* variant of CanStart for a pool without a limit on its workers
CanStart_Unbounded(t) ==
    /\ tasks[t].status = "queued"
    /\ \A u \in Queued : t <= u

\* variant of CanStart for a pool that stops dispatching after a failure
CanStart_FailFast(t) ==
    /\ tasks[t].status = "queued"
    /\ Cardinality(Running) < options.nproc
    /\ \A u \in Queued : t <= u
    /\ Failed = {}

\* multiprocessing.Pool: at most nproc workers, tasks taken in submission
\* order; the outcome of an earlier task does not influence the queue
CanStart(t) ==
    /\ tasks[t].status = "queued"
    /\ Cardinality(Running) < options.nproc
    /\ \A u \in Queued : t <= u

StartTask(t) ==
    /\ pool \in {"open", "closed"}
    /\ CanStart(t)
    /\ tasks' = [tasks EXCEPT ![t].status = "running"]
    /\ started' = Append(started, t)
    /\ UNCHANGED <<options, barcode_lines, vcf_len, pc, barcodes, chrom_all, vcf_RV,
                   ii, out_files, result, pool, files, merged, done_order, raised,
                   exit_code>>

\* the engine returns (ok) or raises; a run that succeeds has written its
\* temp file, one that raises may have written it or not
FinishTask(t, ok, wrote) ==
    /\ pool \in {"open", "closed"}
    /\ tasks[t].status = "running"
    /\ ok => wrote
    /\ tasks' = [tasks EXCEPT ![t].status = IF ok THEN "success" ELSE "failed"]
    /\ files' = IF wrote THEN files \cup {tasks[t].out} ELSE files
    /\ done_order' = Append(done_order, t)
    /\ UNCHANGED <<options, started, barcode_lines, vcf_len, pc, barcodes, chrom_all, vcf_RV,
                   ii, out_files, result, pool, merged, raised, exit_code>>

\* variant of SeqRaises for a loop that catches the exception and goes on
SeqRaises_Caught(ok) == FALSE

\* line 152: the call is not guarded, an exception of the engine leaves main
SeqRaises(ok) == ~ok

\* line 152-155: the sequential engine call returns, or raises out of main
SeqFinish(ok, wrote) ==
    /\ pc = "dispatch" /\ ~Pooled
    /\ Running # {}
    /\ ok => wrote
    /\ LET t == CHOOSE u \in Running : TRUE
       IN  /\ tasks' = [tasks EXCEPT ![t].status = IF ok THEN "success" ELSE "failed"]
           /\ files' = IF wrote THEN files \cup {tasks[t].out} ELSE files
           /\ done_order' = Append(done_order, t)
           /\ IF ~SeqRaises(ok) THEN UNCHANGED <<pc, raised, exit_code>>
              ELSE /\ pc' = "failed"
                   /\ raised' = t
                   /\ exit_code' = 1
    /\ UNCHANGED <<options, started, barcode_lines, vcf_len, barcodes, chrom_all, vcf_RV,
                   ii, out_files, result, pool, merged>>

\* line 146, 179: pool.close() after the last submission
Close ==
    /\ pc = "dispatch" /\ Pooled /\ ii = LoopLen
    /\ pool' = "closed"
    /\ pc' = "join"
    /\ UNCHANGED <<options, started, barcode_lines, vcf_len, barcodes, chrom_all, vcf_RV,
                   ii, out_files, tasks, result, files, merged, done_order, raised,
                   exit_code>>

\* variant of AllDone for a join that only waits for the queue to be empty
AllDone_QueueDrained == Queued = {}

\* pool.join() returns once the workers have drained the queue and exited
AllDone == \A t \in 1..Len(tasks) : Terminal(tasks[t].status)

\* line 147, 180
Join ==
    /\ pc = "join"
    /\ AllDone
    /\ pool' = "joined"
    /\ pc' = "collect"
    /\ UNCHANGED <<options, started, barcode_lines, vcf_len, barcodes, chrom_all, vcf_RV,
                   ii, out_files, tasks, result, files, merged, done_order, raised,
                   exit_code>>

\* line 149: the sequential loop is exhausted
SeqLoopEnd ==
    /\ pc = "dispatch" /\ ~Pooled /\ ii = LoopLen
    /\ Running = {}
    /\ pc' = "collect"
    /\ UNCHANGED <<options, started, barcode_lines, vcf_len, barcodes, chrom_all, vcf_RV,
                   ii, out_files, tasks, result, pool, files, merged, done_order,
                   raised, exit_code>>

\* variant of ResultFailures for a collection that never looks at the outcome
ResultFailures_Ignored == {}

\* line 156, 181: positions of result whose res.get() re-raises
ResultFailures == {k \in 1..Len(result) : tasks[result[k]].status = "failed"}

\* variant of RaisedTask that reports the failure that happened first
RaisedTask_FirstInTime ==
    done_order[CHOOSE k \in 1..Len(done_order) :
                  /\ tasks[done_order[k]].status = "failed"
                  /\ \A j \in 1..(k - 1) : tasks[done_order[j]].status # "failed"]

\* line 156, 181: the get() calls are made in list order, so the exception
\* that leaves main is the one of the first failed entry of result
RaisedTask == result[CHOOSE k \in ResultFailures : \A j \in ResultFailures : k <= j]

\* line 156, 181: result = [res.get() ...], the first raising get() ends main
Collect ==
    /\ pc = "collect"
    /\ IF ResultFailures # {}
       THEN /\ raised' = RaisedTask
            /\ pc' = "failed"
            /\ exit_code' = 1
       ELSE /\ pc' = "merge"
            /\ UNCHANGED <<raised, exit_code>>
    /\ UNCHANGED <<options, started, barcode_lines, vcf_len, barcodes, chrom_all, vcf_RV,
                   ii, out_files, tasks, result, pool, files, merged, done_order>>

\* variant of MergeParts that lists the paths as the tasks complete
MergeParts_ByCompletion == [k \in 1..Len(done_order) |-> tasks[done_order[k]].out]

\* line 186: the list of partial paths given to merge_vcf
MergeParts == out_files

\* merge_vcf: concatenates the partial files in the order given into the
\* final file, then removes them
merge_vcf(out, parts) ==
    /\ merged' = Append(merged, [out |-> out, parts |-> parts])
    /\ files' = files \ Range(parts)

\* line 186-190
Merge ==
    /\ pc = "merge"
    /\ merge_vcf(options.out_file, MergeParts)
    /\ pc' = "done"
    /\ exit_code' = 0
    /\ UNCHANGED <<options, started, barcode_lines, vcf_len, barcodes, chrom_all, vcf_RV,
                   ii, out_files, tasks, result, pool, done_order, raised>>

\* ---------------------------------------------------------------- inputs
ChromChars == {"1", "2", ","}
LineChars == {"A", "B", "-", " "}

BarcodeOpts == {None, <<"nb">>, <<"b">>}
SamOpts == {None, <<"ns">>, <<"s">>}
OutOpts == {None, <<"o">>, <<"x", "/", "o">>, <<"d", "/", "o">>}
RegionOpts == {None, <<"None">>, <<"nr">>, <<"r">>}
ChromOpts == {None} \cup SeqsUpTo(ChromChars, MaxChromLen)

\* readlines() of a file whose lines all end with a newline
FileLines == {l \o <<"\n">> : l \in SeqsUpTo(LineChars, MaxLineLen)}

ExampleBarcodeFile == << <<"A", "-", "A", "\n">>, <<"B", "-", "B", "\n">>,
                         <<"A", "-", "A", "\n">> >>

Defaults == [argv_empty |-> FALSE, barcode_file |-> None, sam_file |-> None,
             out_file |-> None, region_file |-> None, chrom_all |-> None,
             nproc |-> 1]

\* command lines of the orchestration model; an option that the chosen mode
\* never reads keeps its default, and the 22 default chromosomes are run
\* sequentially only
JobOptions ==
    {o \in [argv_empty : {FALSE}, barcode_file : BarcodeOpts, sam_file : SamOpts,
            out_file : OutOpts, region_file : RegionOpts, chrom_all : ChromOpts,
            nproc : (0 - 1)..MaxNproc] :
        /\ o.region_file = <<"r">> => o.chrom_all = None
        /\ (o.chrom_all = None /\ o.region_file # <<"r">>) => o.nproc <= 1}
    \cup {[Defaults EXCEPT !.argv_empty = TRUE]}

InitLocals ==
    /\ pc = "build"
    /\ barcodes = [some |-> FALSE, val |-> <<>>]
    /\ chrom_all = <<>>
    /\ vcf_RV = EmptyVcf
    /\ ii = 0
    /\ out_files = <<>>
    /\ tasks = <<>>
    /\ result = <<>>
    /\ pool = "none"
    /\ files = {}
    /\ merged = <<>>
    /\ done_order = <<>>
    /\ started = <<>>
    /\ raised = 0
    /\ exit_code = 0 - 1

Init ==
    /\ options \in JobOptions
    /\ barcode_lines \in IF options.barcode_file = <<"b">>
                         THEN {ExampleBarcodeFile} ELSE {<<>>}
    /\ vcf_len \in IF options.region_file = <<"r">> THEN 0..MaxL ELSE {0}
    /\ InitLocals

Next ==
    \/ BuildJob
    \/ DispatchPileupPool
    \/ DispatchPileupSeq
    \/ DispatchFetch
    \/ \E t \in 1..Len(tasks) : StartTask(t)
    \/ \E t \in 1..Len(tasks), ok \in BOOLEAN, wrote \in BOOLEAN : FinishTask(t, ok, wrote)
    \/ \E ok \in BOOLEAN, wrote \in BOOLEAN : SeqFinish(ok, wrote)
    \/ Close
    \/ Join
    \/ SeqLoopEnd
    \/ Collect
    \/ Merge

Spec == Init /\ [][Next]_vars

\* the partitioner alone, on larger inputs: targeted runs up to the end of
\* the dispatch loop
InitPartition ==
    /\ options \in {[Defaults EXCEPT !.sam_file = <<"s">>, !.out_file = <<"d", "/", "o">>,
                                      !.region_file = <<"r">>, !.nproc = n] :
                        n \in 1..MaxPartNproc}
    /\ barcode_lines = <<>>
    /\ vcf_len \in 0..MaxPartL
    /\ InitLocals

NextPartition == BuildJob \/ DispatchFetch

SpecPartition == InitPartition /\ [][NextPartition]_vars

\* the barcode loader alone, on every small barcode file
InitBarcodes ==
    /\ options = [Defaults EXCEPT !.barcode_file = <<"b">>, !.sam_file = <<"s">>,
                                  !.out_file = <<"d", "/", "o">>]
    /\ barcode_lines \in SeqsUpTo(FileLines, MaxLines)
    /\ vcf_len = 0
    /\ InitLocals

NextBarcodes == BuildJob

SpecBarcodes == InitBarcodes /\ [][NextBarcodes]_vars

\* ---------------------------------------------------------------- properties
\* the dispatch loop has run to its end
LoopDone == pc \in {"dispatch", "join", "collect", "merge", "done"} /\ ii = LoopLen
Targeted == ~WholeGenome /\ pc # "build" /\ pc # "failed"

\* 0-based candidate indices handed to task t, recovered from the positions
TaskIndices(t) == [k \in 1..Len(tasks[t].pos) |-> tasks[t].pos[k] - 101]

RECURSIVE ConcatIndices(_)
ConcatIndices(n) == IF n = 0 THEN <<>> ELSE ConcatIndices(n - 1) \o TaskIndices(n)

\* C1: in targeted mode, once all nproc tasks are built, the index ranges of
\* tasks 0..N-1 concatenated in task order are exactly 0..L-1, so every
\* candidate index is in exactly one task.
C1_PartitionComplete ==
    (Targeted /\ LoopDone) =>
        /\ Len(tasks) = options.nproc
        /\ ConcatIndices(Len(tasks)) = [k \in 1..vcf_len |-> k - 1]

C1_Witness ==
    /\ Targeted /\ LoopDone
    /\ vcf_len = 10 /\ options.nproc = 3
    /\ Len(tasks[3].pos) = 4

\* C8: with block = floor(L / N), task i < N-1 holds exactly the indices
\* [block*i, block*(i+1)), task N-1 holds [block*(N-1), L), and every range
\* has a size >= 0 and ends at or before L.
C8_BlockSizing ==
    Targeted =>
        \A t \in 1..Len(tasks) :
            LET block == vcf_len \div options.nproc
                lo == block * (t - 1)
                hi == IF t = options.nproc THEN vcf_len ELSE block * t
            IN  /\ 0 <= lo /\ lo <= hi /\ hi <= vcf_len
                /\ TaskIndices(t) = [k \in 1..(hi - lo) |-> lo + k - 1]
                /\ Len(tasks[t].chrom) = hi - lo
                /\ (t < options.nproc => Len(tasks[t].pos) = block)

C8_Witness ==
    /\ Targeted /\ LoopDone
    /\ vcf_len = 2 /\ options.nproc = 5
    /\ \A t \in 1..4 : tasks[t].pos = <<>>
    /\ Len(tasks[5].pos) = 2

\* the temp path of the k-th partition, in partition order
PartitionPath(k) ==
    IF WholeGenome
    THEN options.out_file \o <<".temp_">> \o ChromList(options.chrom_all)[k] \o <<"_">>
    ELSE options.out_file \o <<".temp_">> \o FormatD(k - 1) \o <<"_">>

\* C2: the list of partial paths given to merge_vcf is in partition order
\* (chromosome-list order or task-index order), whatever the order in which
\* the tasks completed.
C2_MergeOrder ==
    \A m \in 1..Len(merged) :
        /\ Len(merged[m].parts) = Len(tasks)
        /\ Len(done_order) = Len(tasks)
        /\ \A k \in 1..Len(tasks) :
              /\ merged[m].parts[k] = tasks[k].out
              /\ merged[m].parts[k] = PartitionPath(k)

\* merge reached after the three tasks of a pool completed in reverse order
C2_Witness ==
    /\ Len(merged) = 1
    /\ Pooled
    /\ done_order = <<3, 2, 1>>
    /\ merged[1].parts = <<PartitionPath(1), PartitionPath(2), PartitionPath(3)>>
    /\ PartitionPath(1) # PartitionPath(2) /\ PartitionPath(2) # PartitionPath(3)

\* C3: result collection and the merge never start while a submitted task
\* is pending or running; at that point every partition has been submitted.
C3_Barrier ==
    (pc \in {"collect", "merge", "done"} \/ merged # <<>> \/ pool = "joined") =>
        /\ Len(tasks) = LoopLen
        /\ \A t \in 1..Len(tasks) : tasks[t].status \in {"success", "failed"}

C3_Witness ==
    /\ pc = "collect" /\ pool = "joined"
    /\ Len(tasks) = 3
    /\ tasks[3].status = "failed"

C5_CleanupOnFailure ==
    (pc \in {"done", "failed"} /\ Failed # {}) =>
        \A t \in 1..Len(tasks) : tasks[t].out \notin files

\* C5 amended: when a job in which a task failed has ended, nothing has
\* been deleted: the temp file of every task that succeeded still exists.
C5_FilesKeptOnFailure ==
    (pc \in {"done", "failed"} /\ Failed # {}) =>
        \A t \in 1..Len(tasks) : tasks[t].status = "success" => tasks[t].out \in files

\* task 2 of 4 failed without output, the files of the three others are left
C5_Witness ==
    /\ pc = "failed" /\ Len(tasks) = 4
    /\ tasks[2].status = "failed"
    /\ \A t \in {1, 3, 4} : tasks[t].status = "success"
    /\ files = {tasks[1].out, tasks[3].out, tasks[4].out}
    /\ Cardinality(files) = 3

\* C6: if any task has failed, merge_vcf is never called, the job never ends
\* as done, and once main has ended the exit status is 1.
C6_NoMergeOnFailure ==
    Failed # {} =>
        /\ merged = <<>>
        /\ pc \notin {"merge", "done"}
        /\ exit_code # 0
        /\ pc = "failed" => (exit_code = 1 /\ raised \in Failed)

C6_Witness ==
    /\ pc = "failed" /\ ~WholeGenome
    /\ Len(tasks) = 2
    /\ tasks[1].status = "success" /\ tasks[2].status = "failed"
    /\ raised = 2

\* C7: the temp paths of the tasks are pairwise distinct.
C7_DistinctPaths ==
    \A i \in 1..Len(out_files), j \in 1..Len(out_files) :
        i # j => out_files[i] # out_files[j]

\* C9: in whole-genome mode, once the loop is done, there is one task per
\* entry of the chromosome list, in list order, as many temp paths as
\* entries, and every chromosome name is the key of exactly one task.
C9_OneTaskPerChromosome ==
    (WholeGenome /\ LoopDone /\ options.chrom_all # None) =>
        LET names == Split(options.chrom_all, ",")
        IN  /\ Len(tasks) = Len(names)
            /\ Len(out_files) = Len(names)
            /\ \A k \in 1..Len(names) : tasks[k].chrom = names[k]
            /\ \A c \in Range(names) :
                  Cardinality({t \in 1..Len(tasks) : tasks[t].chrom = c}) = 1

\* C10: the barcode list holds every normalized barcode of the file exactly
\* once, in ascending order.
C10_BarcodesDedupSorted ==
    (pc # "build" /\ barcodes.some) =>
        /\ \A k \in 1..(Len(barcodes.val) - 1) :
              StrLess(barcodes.val[k], barcodes.val[k + 1])
        /\ \A l \in Range(barcode_lines) :
              \E k \in 1..Len(barcodes.val) : barcodes.val[k] = Split(RStrip(l), "-")[1]

\* C11: on a run where every task succeeded, each task has created its own
\* temp file (as many files as tasks), merge_vcf is called exactly once with
\* the final output path and the temp paths of all tasks, one per task, and
\* after the merge no temp file remains.
C11_MergeOnceAllTemps ==
    /\ pc = "merge" =>
          /\ merged = <<>>
          /\ \A t \in 1..Len(tasks) : tasks[t].out \in files
          /\ Cardinality(files) = Len(tasks)
    /\ pc = "done" =>
          /\ Len(merged) = 1
          /\ merged[1].out = options.out_file
          /\ Len(merged[1].parts) = Len(tasks)
          /\ \A k \in 1..Len(tasks) : merged[1].parts[k] = tasks[k].out
          /\ files = {}

\* a path "<dir>/<name>" whose <dir> is not an existing directory
ParentMissing(p) ==
    /\ Len(p) >= 3
    /\ p[Len(p) - 1] = "/"
    /\ SubSeq(p, 1, Len(p) - 2) \notin ExistingDirs

\* the configuration errors: a required option is missing, a supplied file
\* does not exist, or the parent directory of the output does not exist
IsConfigError(o) ==
    \/ o.sam_file = None
    \/ o.out_file = None
    \/ o.barcode_file # None /\ o.barcode_file \notin ExistingFiles
    \/ o.sam_file # None /\ o.sam_file \notin ExistingFiles
    \/ o.region_file \notin {None, <<"None">>} /\ o.region_file \notin ExistingFiles
    \/ o.out_file # None /\ ParentMissing(o.out_file)

\* C12: with a configuration error, main ends with exit status 1 and has
\* created no pool, dispatched or started no task, registered no temp path,
\* written no temp file and called no merge.
C12_ConfigErrorExitsEarly ==
    (pc # "build" /\ IsConfigError(options)) =>
        /\ pc = "failed" /\ exit_code = 1
        /\ pool = "none"
        /\ tasks = <<>> /\ result = <<>> /\ started = <<>>
        /\ out_files = <<>> /\ files = {} /\ merged = <<>>

\* every file exists, only the directory of the output path does not
C12_Witness ==
    /\ pc = "failed" /\ exit_code = 1
    /\ options.barcode_file = <<"b">> /\ options.sam_file = <<"s">>
    /\ options.region_file = <<"r">>
    /\ options.out_file = <<"x", "/", "o">>
    /\ tasks = <<>> /\ pool = "none"

\* the temp paths of all partitions, in partition order; nproc only enters
\* as the number of index ranges of targeted mode
PartitionPaths ==
    [k \in 1..(IF WholeGenome THEN Len(ChromList(options.chrom_all)) ELSE options.nproc)
        |-> PartitionPath(k)]

\* C13 as stated: with nproc = 1 no worker pool is ever created, in either
\* mode, and every task runs on the caller.
C13_NoPoolWhenOne ==
    (options.nproc = 1 /\ pc # "build") => (pool = "none" /\ result = <<>>)

\* C13 amended: with nproc = 1 whole-genome mode creates no pool and runs
\* the tasks one after the other on the caller, in list order; targeted mode
\* still creates a pool (of one worker) for its single task; in both modes
\* the tasks and the list given to merge_vcf are those of the partition,
\* whatever nproc is.
C13_SequentialWhenOne ==
    /\ (options.nproc = 1 /\ WholeGenome) =>
          /\ pool = "none" /\ result = <<>>
          /\ Cardinality(Running) <= 1
          /\ \A t \in 1..Len(tasks) :
                tasks[t].status # "queued"
                /\ (t < Len(tasks) => tasks[t].status = "success")
    /\ (options.nproc = 1 /\ ~WholeGenome /\ pc \in {"dispatch", "join", "collect", "merge", "done"}) =>
          /\ pool # "none"
          /\ Len(tasks) <= 1 /\ result = [k \in 1..Len(tasks) |-> k]
    /\ pc \in {"merge", "done"} =>
          /\ [k \in 1..Len(tasks) |-> tasks[k].out] = PartitionPaths
          /\ out_files = PartitionPaths
          /\ \A m \in 1..Len(merged) : merged[m].parts = PartitionPaths

\* a sequential whole-genome run of three chromosomes that reached the end
C13_Witness ==
    /\ options.nproc = 1 /\ WholeGenome /\ pc = "done"
    /\ pool = "none"
    /\ Len(tasks) = 3
    /\ merged[1].parts = PartitionPaths

\* C14: in every targeted task the chromosome, position, reference and
\* alternate sequences given to the engine all have length hi - lo, and
\* their k-th elements are the fields of candidate lo + k of the parsed file.
C14_AlignedArguments ==
    Targeted =>
        \A t \in 1..Len(tasks) :
            LET block == vcf_len \div options.nproc
                lo == block * (t - 1)
                hi == IF t = options.nproc THEN vcf_len ELSE block * t
            IN  /\ Len(tasks[t].chrom) = hi - lo
                /\ Len(tasks[t].pos) = hi - lo
                /\ Len(tasks[t].REF) = hi - lo
                /\ Len(tasks[t].ALT) = hi - lo
                /\ \A k \in 1..(hi - lo) :
                      /\ tasks[t].chrom[k] = vcf_RV.chrom[lo + k]
                      /\ tasks[t].pos[k] = vcf_RV.pos[lo + k]
                      /\ tasks[t].REF[k] = vcf_RV.REF[lo + k]
                      /\ tasks[t].ALT[k] = vcf_RV.ALT[lo + k]

\* number of occurrences of x in the sequence s
Count(s, x) == Cardinality({k \in 1..Len(s) : s[k] = x})

\* C15: for nproc >= 1 at most nproc tasks execute at the same time, and
\* every task begins at most once and ends at most once: a task is never
\* dispatched twice and never run again after it failed.
C15_BoundedStartOnce ==
    /\ options.nproc >= 1 => Cardinality(Running) <= options.nproc
    /\ \A t \in 1..Len(tasks) :
          /\ Count(started, t) = (IF tasks[t].status = "queued" THEN 0 ELSE 1)
          /\ Count(done_order, t) = (IF Terminal(tasks[t].status) THEN 1 ELSE 0)
          /\ Count(result, t) <= 1
    /\ Len(started) <= Len(tasks)
    /\ \A k \in 1..Len(started) : started[k] \in 1..Len(tasks)

\* two workers, busy with tasks 3 and 4 after tasks 1 and 2 have ended, one
\* of them by failing
C15_Witness ==
    /\ options.nproc = 2 /\ Len(tasks) = 4
    /\ tasks[1].status = "failed" /\ tasks[2].status = "success"
    /\ tasks[3].status = "running" /\ tasks[4].status = "running"
    /\ started = <<1, 2, 3, 4>>

\* C16: in targeted mode, once the loop is over, exactly nproc tasks with
\* indices 0..nproc-1 have been handed to fetch_positions, whatever L is;
\* a task with an empty range is among them, main does not fail unless an
\* engine call raised, and the temp path of task i is the i-th entry of the
\* list given to merge_vcf.
C16_EmptyRangesDispatched ==
    /\ (~WholeGenome /\ pc \in {"join", "collect", "merge", "done"}) =>
          /\ Len(tasks) = options.nproc
          /\ Len(out_files) = options.nproc
          /\ \A t \in 1..Len(tasks) :
                /\ tasks[t].func = "fetch_positions"
                /\ tasks[t].out = options.out_file \o <<".temp_">> \o FormatD(t - 1) \o <<"_">>
                /\ out_files[t] = tasks[t].out
                /\ result[t] = t
                /\ pc # "join" => Count(started, t) = 1
          /\ \A m \in 1..Len(merged) :
                /\ Len(merged[m].parts) = options.nproc
                /\ \A t \in 1..Len(tasks) : merged[m].parts[t] = tasks[t].out
    /\ (~WholeGenome /\ pc = "failed" /\ tasks # <<>>) =>
          /\ Len(tasks) = options.nproc
          /\ raised \in 1..Len(tasks)
          /\ tasks[raised].status = "failed"

\* one candidate, three tasks: tasks 0 and 1 are empty and still merged
C16_Witness ==
    /\ ~WholeGenome /\ pc = "done"
    /\ vcf_len = 1 /\ options.nproc = 3
    /\ tasks[1].pos = <<>> /\ tasks[2].pos = <<>> /\ Len(tasks[3].pos) = 1
    /\ tasks[1].status = "success" /\ tasks[2].status = "success"
    /\ Len(merged[1].parts) = 3
    /\ merged[1].parts[1] = tasks[1].out

\* C17: in pooled execution the exception that ends main is the one of the
\* failed task with the lowest partition index, whichever task failed first
\* in time, and it is raised only after the join, when every submitted task
\* has reached a terminal state.
C17_LowestIndexFailureRaised ==
    pool # "none" =>
        /\ raised # 0 =>
              /\ pc = "failed" /\ pool = "joined"
              /\ tasks[raised].status = "failed"
              /\ \A t \in 1..Len(tasks) :
                    /\ tasks[t].status \in {"success", "failed"}
                    /\ tasks[t].status = "failed" => raised <= t
        /\ (pc = "failed" /\ tasks # <<>>) => raised # 0

\* task 3 failed first, task 1 failed last, and task 1 is the one reported
C17_Witness ==
    /\ pool = "joined" /\ pc = "failed"
    /\ Len(tasks) = 3
    /\ done_order = <<3, 2, 1>>
    /\ tasks[1].status = "failed" /\ tasks[2].status = "success"
    /\ tasks[3].status = "failed"
    /\ raised = 1

\* C18: in whole-genome mode with nproc <= 1 a failing engine call ends main
\* at once: the failed task is the last task ever begun, all tasks before it
\* succeeded, and temp paths are registered exactly for the chromosomes up
\* to and including the failing one.
C18_SequentialAbort ==
    (WholeGenome /\ options.nproc <= 1
        /\ \E t \in 1..Len(tasks) : tasks[t].status = "failed") =>
        LET f == Len(tasks)
        IN  /\ pc = "failed" /\ exit_code = 1
            /\ raised = f
            /\ tasks[f].status = "failed"
            /\ \A t \in 1..(f - 1) : tasks[t].status = "success"
            /\ started = [k \in 1..f |-> k]
            /\ Len(out_files) = f
            /\ \A k \in 1..f :
                  out_files[k] = options.out_file \o <<".temp_">>
                                   \o ChromList(options.chrom_all)[k] \o <<"_">>
            /\ merged = <<>>

\* the second of three chromosomes failed, the third was never begun
C18_Witness ==
    /\ WholeGenome /\ options.nproc = 1
    /\ Len(chrom_all) = 3
    /\ pc = "failed" /\ raised = 2
    /\ Len(tasks) = 2 /\ Len(out_files) = 2
    /\ tasks[1].status = "success" /\ tasks[2].status = "failed"

\* ---------------------------------------------------------------- progress
\* the steps of main itself
MainStep ==
    \/ BuildJob \/ DispatchPileupPool \/ DispatchPileupSeq \/ DispatchFetch
    \/ Close \/ Join \/ SeqLoopEnd \/ Collect \/ Merge

\* main keeps running, a free worker takes the next queued task, and every
\* engine call comes to an end
Fairness ==
    /\ WF_vars(MainStep)
    /\ WF_vars(\E t \in 1..Len(tasks) : StartTask(t))
    /\ WF_vars(\E t \in 1..Len(tasks), ok \in BOOLEAN, wrote \in BOOLEAN :
                  FinishTask(t, ok, wrote))
    /\ WF_vars(\E ok \in BOOLEAN, wrote \in BOOLEAN : SeqFinish(ok, wrote))

\* accepted command lines with nproc >= 1, in both modes
LiveOptions ==
    {[Defaults EXCEPT !.sam_file = <<"s">>, !.out_file = <<"d", "/", "o">>,
                      !.chrom_all = c, !.nproc = n] :
        c \in SeqsUpTo(ChromChars, MaxLiveChromLen), n \in 1..MaxLiveNproc}
    \cup
    {[Defaults EXCEPT !.sam_file = <<"s">>, !.out_file = <<"d", "/", "o">>,
                      !.region_file = <<"r">>, !.nproc = n] : n \in 1..MaxLiveNproc}

InitLive ==
    /\ options \in LiveOptions
    /\ barcode_lines = <<>>
    /\ vcf_len \in IF options.region_file = <<"r">> THEN 0..MaxLiveL ELSE {0}
    /\ InitLocals

FairSpec == InitLive /\ [][Next]_vars /\ Fairness

\* C19: under fair scheduling, with every engine call ending, every run
\* reaches a final state, merge completed or job failed; in particular a run
\* waiting at the join barrier gets past it.
C19_Termination == <>(pc \in {"done", "failed"})

\* more tasks than workers, one of them with an empty range, and the run
\* has come to its end through the join
C19_Witness ==
    /\ pc = "done" /\ pool = "joined"
    /\ ~WholeGenome /\ options.nproc = 3 /\ vcf_len = 2
    /\ tasks[1].pos = <<>>
    /\ Len(tasks) = 3
====
